---- MODULE Spec2Model ----
(***************************************************************************)
(* A model of game_time: GameClock / GameTime (clock.rs), the time steps   *)
(* (step.rs), FrameCounter (framerate/counter.rs) and the pacing sleep.    *)
(*                                                                         *)
(* Wall-clock instants (chrono::DateTime) and std time::Duration values    *)
(* are whole nanoseconds.  A FloatDuration is an f64 number of seconds and *)
(* resolves time finer than a nanosecond: it is an integer number of       *)
(* quanta, Res quanta to the nanosecond.                                   *)
(***************************************************************************)
EXTENDS Integers, Sequences, FiniteSets, TLC

\* quanta of a FloatDuration per nanosecond
Res == 2
\* nanoseconds per second
NanosPerSec == 1000000000
\* the most ticks one behaviour makes
MaxTicks == 2

Ms(n) == n * 1000000

\* readings of chrono::Local::now(), in nanoseconds
WallTimes == {0, Ms(50)}
\* values given to GameClockBuilder
StartWallTimes == {0}
StartGameTimes == {0, Ms(100)}
StartFrames == {0, 100}
Multipliers == {-1, 0, 1, 5}
\* steps given to ConstantStep::new, in quanta (1 is half a nanosecond)
ConstantSteps == {0, 1, Res * Ms(50)}
\* target frame rates given to FrameCounter
FrameRates == {20, 40}
\* slow thresholds given to set_slow_threshold, in hundredths
SlowThresholds == {50}
\* wall times handed to time_step directly, in quanta
StepInputs == {0, Res * Ms(50)}
\* target frame rates and slow thresholds (in hundredths) as any caller may
\* pass them
AnyFrameRates == {-20, 0, 20, 40}
AnySlowThresholds == {-5, 0, 50, 100, 150}
\* the wall time between the ticks of a paced loop, in nanoseconds
PacedFrame == Ms(100)
\* the multipliers of the paced loops
PacedMultipliers == {1, 2}
\* iterations of the simulation loop in one behaviour
MaxLoopTicks == 4
\* the simulation loops: the constant step and the end time
Loops == {<<Res * Ms(50), Res * Ms(100)>>, <<Res * Ms(50), Res * Ms(200)>>,
          <<Res * Ms(100), Res * Ms(200)>>, <<Res * Ms(100), Res * Ms(350)>>,
          <<Res, 3 * Res>>, <<1, 2 * Res>>}
\* the multipliers of the simulation loops
LoopMultipliers == {1, 2, 5}
\* the most GameTimes one behaviour gives to counter.tick directly
MaxSampleTicks == 5
\* sizes given to with_max_samples
MaxSamples == {0, 1, 2, 3}
\* the elapsed wall and game time, in quanta, of the GameTimes given to the
\* counter directly
SampleElapsed == {<<Res * Ms(50), Res * Ms(50)>>, <<Res * Ms(100), Res * Ms(50)>>,
                  <<0, 0>>, <<-Res * Ms(50), Res * Ms(50)>>}
SampleTimes ==
    {[frame_wall_time |-> 0,
      frame_game_time |-> 0,
      elapsed_game_time |-> e[2],
      elapsed_wall_time |-> e[1],
      frame_number |-> 1] : e \in SampleElapsed}

VARIABLES
    clock,      \* the GameClock
    counter,    \* the FrameCounter
    time,       \* the GameTime the latest tick returned
    outcome,    \* how the latest tick ended: "none", "returned", "panicked"; any
                \* other call that panics sets "panicked" as well
    call,       \* the latest call: the operation, the time step it was given and
                \* its other input (the wall clock reading, or the value passed)
    ret,        \* the FloatDuration the latest direct time_step call returned
    f_calls,    \* the arguments the latest sleep call passed to f
    slept,      \* the durations the latest sleep call passed to thread::sleep
    ticks,      \* ticks that returned so far
    start,      \* the clock as constructed
    run,        \* the steps and multipliers of the ticks so far
    overflow_checks,  \* whether the build checks integer overflow
    seen,       \* the GameTimes counter.tick was given so far
    slow,       \* what the latest is_running_slow call returned
    pc,         \* the position of FrameRunner::do_frame: "idle" outside a call,
                \* else the step that comes next, or "unwound" after a failure
    log         \* the steps of the latest do_frame call, each with its GameTime

\* the variables of the sampling and of do_frame
sample_vars == <<seen, slow>>
frame_vars == <<pc, log>>

vars == <<clock, counter, time, outcome, call, ret, f_calls, slept,
          ticks, start, run, overflow_checks, seen, slow, pc, log>>

----------------------------------------------------------------------------
(* float_duration *)

FloatDurationZero == 0
FloatDurationSeconds(n) == n * NanosPerSec * Res
\* TimePoint::float_duration_since for chrono instants
float_duration_since(later, earlier) == (later - earlier) * Res
\* FloatDuration::to_std: negative values are out of range, the rest is
\* cut to whole nanoseconds
to_std(d) ==
    IF d < 0 THEN [ok |-> FALSE, val |-> 0]
    ELSE [ok |-> TRUE, val |-> d \div Res]
from_std(ns) == ns * Res
is_negative(d) == d < 0

----------------------------------------------------------------------------
(* f64 *)

\* An f64 is an exact fraction n/d in lowest terms with d > 0, or positive
\* infinity (n = 1, d = 0), negative infinity (n = -1, d = 0) or NaN
\* (n = 0, d = 0).  Rounding and the sign of zero are left out.
abs(a) == IF a < 0 THEN -a ELSE a
RECURSIVE gcd(_, _)
gcd(a, b) == IF b = 0 THEN a ELSE gcd(b, a % b)
sign(a) == IF a > 0 THEN 1 ELSE IF a < 0 THEN -1 ELSE 0

F64Inf == [n |-> 1, d |-> 0]
F64NegInf == [n |-> -1, d |-> 0]
F64NaN == [n |-> 0, d |-> 0]
\* the fraction n/d, d # 0
F64(n, d) ==
    LET g == gcd(abs(n), abs(d)) IN
    [n |-> (sign(d) * n) \div g, d |-> abs(d) \div g]
F64Zero == F64(0, 1)
F64One == F64(1, 1)
is_nan(x) == x.d = 0 /\ x.n = 0
is_infinite(x) == x.d = 0 /\ x.n # 0
is_finite(x) == x.d # 0

f64_add(x, y) ==
    IF is_nan(x) \/ is_nan(y) THEN F64NaN
    ELSE IF is_infinite(x) /\ is_infinite(y) THEN (IF x = y THEN x ELSE F64NaN)
    ELSE IF is_infinite(x) THEN x
    ELSE IF is_infinite(y) THEN y
    ELSE F64(x.n * y.d + y.n * x.d, x.d * y.d)

f64_mul(x, y) ==
    IF is_nan(x) \/ is_nan(y) THEN F64NaN
    ELSE IF is_infinite(x) \/ is_infinite(y)
         THEN (IF x.n = 0 \/ y.n = 0 THEN F64NaN
               ELSE [n |-> sign(x.n) * sign(y.n), d |-> 0])
    ELSE F64(x.n * y.n, x.d * y.d)

f64_div(x, y) ==
    IF is_nan(x) \/ is_nan(y) THEN F64NaN
    ELSE IF is_infinite(x)
         THEN (IF is_infinite(y) THEN F64NaN
               ELSE [n |-> sign(x.n) * (IF y.n < 0 THEN -1 ELSE 1), d |-> 0])
    ELSE IF is_infinite(y) THEN F64Zero
    ELSE IF y.n = 0
         THEN (IF x.n = 0 THEN F64NaN ELSE [n |-> sign(x.n), d |-> 0])
    ELSE F64(x.n * y.d, x.d * y.n)

\* x <= y
f64_le(x, y) ==
    /\ ~is_nan(x)
    /\ ~is_nan(y)
    /\ IF is_infinite(x) \/ is_infinite(y)
       THEN x = y \/ x = F64NegInf \/ y = F64Inf
       ELSE x.n * y.d <= y.n * x.d
\* x < y
f64_lt(x, y) == f64_le(x, y) /\ x # y

\* an unsigned integer as f64
as_f64(k) == F64(k, 1)
\* x * (u32::MAX as f64), u32::MAX = 65535 * 65537
f64_times_u32_max(x) ==
    IF is_finite(x) /\ x.n # 0
    THEN F64(x.n * 65535 * 65537, x.d)
    ELSE x

RECURSIVE f64_sum(_)
f64_sum(q) ==
    IF q = <<>> THEN F64Zero
    ELSE f64_add(f64_sum(SubSeq(q, 1, Len(q) - 1)), q[Len(q)])

\* FloatDuration::as_seconds
as_seconds(d) == F64(d, NanosPerSec * Res)

----------------------------------------------------------------------------
(* framerate/sample.rs *)

DEFAULT_NUM_SAMPLES == 64

\* A sampler is one record for both types: a RunningAverageSampler leaves
\* past_data empty, a LinearAverageSampler leaves current_samples and
\* current_average at zero.
RunningAverageSamplerWithMaxSamples(max_samples) ==
    [kind |-> "RunningAverageSampler",
     max_samples |-> max_samples,
     current_samples |-> 0,
     current_average |-> F64Zero,
     past_data |-> <<>>]
RunningAverageSamplerNew == RunningAverageSamplerWithMaxSamples(DEFAULT_NUM_SAMPLES)

LinearAverageSamplerWithMaxSamples(max_samples) ==
    [kind |-> "LinearAverageSampler",
     max_samples |-> max_samples,
     current_samples |-> 0,
     current_average |-> F64Zero,
     past_data |-> <<>>]
LinearAverageSamplerNew == LinearAverageSamplerWithMaxSamples(DEFAULT_NUM_SAMPLES)

\* a sampler that never counts as saturated
is_saturated_never(s) == FALSE
is_saturated(s) ==
    IF s.kind = "RunningAverageSampler"
    THEN s.current_samples = s.max_samples
    ELSE Len(s.past_data) = s.max_samples

\* the rate taken from the elapsed game time
effective_fps_of_game_time(t) == f64_div(F64One, as_seconds(t.elapsed_game_time))
\* 1.0 / time.elapsed_wall_time().as_seconds()
effective_fps(t) == f64_div(F64One, as_seconds(t.elapsed_wall_time))

\* the weight of the previous average taken as the whole sample count
previous_weight_whole(num_samples) == num_samples
\* num_samples - 1, the weight of the previous average
previous_weight(num_samples) == num_samples - 1

\* RunningAverageSampler::tick.  With num_samples = 0 the u32 subtraction
\* num_samples - 1 overflows: a build with overflow checks panics there, a
\* build without them goes on with u32::MAX.
RunningAverageSamplerTick(s, t, checks) ==
    LET current_samples == IF ~is_saturated(s)
                           THEN s.current_samples + 1
                           ELSE s.current_samples
        num_samples == current_samples
        overflows == previous_weight(num_samples) < 0
        fps == effective_fps(t)
        weighted == IF overflows
                    THEN f64_times_u32_max(s.current_average)
                    ELSE f64_mul(s.current_average, as_f64(previous_weight(num_samples)))
        new_average == f64_div(f64_add(weighted, fps), as_f64(num_samples))
    IN  IF overflows /\ checks
        THEN [ok |-> FALSE,
              sampler |-> [s EXCEPT !.current_samples = current_samples]]
        ELSE [ok |-> TRUE,
              sampler |-> [s EXCEPT !.current_samples = current_samples,
                                    !.current_average = new_average]]

\* VecDeque::pop_front, the popped value dropped
pop_front(q) == IF q = <<>> THEN q ELSE Tail(q)

\* LinearAverageSampler::tick
LinearAverageSamplerTick(s, t) ==
    LET fps == effective_fps(t)
        kept == IF is_saturated(s) THEN pop_front(s.past_data) ELSE s.past_data
    IN  [ok |-> TRUE, sampler |-> [s EXCEPT !.past_data = Append(kept, fps)]]

(* frame.rs, the sampler of an earlier version *)

\* a MovingAverageSampler has the fields of a RunningAverageSampler
MovingAverageSamplerWithMaxSamples(max_samples) ==
    [kind |-> "MovingAverageSampler",
     max_samples |-> max_samples,
     current_samples |-> 0,
     current_average |-> F64Zero,
     past_data |-> <<>>]

\* 1.0 / time.elapsed_game_time().as_seconds()
moving_effective_fps(t) == f64_div(F64One, as_seconds(t.elapsed_game_time))

\* MovingAverageSampler::tick, with the same u32 subtraction as
\* RunningAverageSampler::tick
MovingAverageSamplerTick(s, t, checks) ==
    LET current_samples == IF s.current_samples # s.max_samples
                           THEN s.current_samples + 1
                           ELSE s.current_samples
        num_samples == current_samples
        overflows == num_samples - 1 < 0
        fps == moving_effective_fps(t)
        weighted == IF overflows
                    THEN f64_times_u32_max(s.current_average)
                    ELSE f64_mul(s.current_average, as_f64(num_samples - 1))
        new_average == f64_div(f64_add(weighted, fps), as_f64(num_samples))
    IN  IF overflows /\ checks
        THEN [ok |-> FALSE,
              sampler |-> [s EXCEPT !.current_samples = current_samples]]
        ELSE [ok |-> TRUE,
              sampler |-> [s EXCEPT !.current_samples = current_samples,
                                    !.current_average = new_average]]

\* FrameRateSampler::tick, of sample.rs and of frame.rs
sampler_tick(s, t, checks) ==
    IF s.kind = "RunningAverageSampler"
    THEN RunningAverageSamplerTick(s, t, checks)
    ELSE IF s.kind = "LinearAverageSampler"
    THEN LinearAverageSamplerTick(s, t)
    ELSE MovingAverageSamplerTick(s, t, checks)

\* FrameRateSampler::average_frame_rate, of sample.rs and of frame.rs
average_frame_rate(s) ==
    IF s.kind = "LinearAverageSampler"
    THEN f64_div(f64_sum(s.past_data), as_f64(Len(s.past_data)))
    ELSE s.current_average

\* FrameRateSampler::max_samples
max_samples(s) == s.max_samples

----------------------------------------------------------------------------
(* framerate/counter.rs *)

DEFAULT_SLOW_THRESHOLD == 95

FrameCounterNew(target_frame_rate, sampler) ==
    [target_frame_rate |-> target_frame_rate,
     slow_threshold |-> DEFAULT_SLOW_THRESHOLD,
     sampler |-> sampler]

set_slow_threshold(cnt, val) == [cnt EXCEPT !.slow_threshold = val]
set_target_frame_rate(cnt, val) == [cnt EXCEPT !.target_frame_rate = val]

target_time_per_frame(cnt) ==
    FloatDurationSeconds(1) \div cnt.target_frame_rate

\* a tick that leaves the sampler alone
counter_tick_skipped(cnt, t, checks) == [ok |-> TRUE, counter |-> cnt]
\* FrameCount::tick: the sampler takes the GameTime
counter_tick(cnt, t, checks) ==
    LET r == sampler_tick(cnt.sampler, t, checks) IN
    [ok |-> r.ok, counter |-> [cnt EXCEPT !.sampler = r.sampler]]

\* FrameCount::average_frame_rate
counter_average_frame_rate(cnt) == average_frame_rate(cnt.sampler)
\* FrameCounter::is_saturated
counter_is_saturated(cnt) == is_saturated(cnt.sampler)

\* the slow threshold as f64
threshold_f64(cnt) == F64(cnt.slow_threshold, 100)
\* the ratio of is_running_slow
slow_ratio(cnt, t) ==
    f64_div(as_seconds(target_time_per_frame(cnt)), as_seconds(t.elapsed_wall_time))
\* is_running_slow with a ratio equal to the threshold not counted as slow
is_running_slow_below(cnt, t) == f64_lt(slow_ratio(cnt, t), threshold_f64(cnt))
\* FrameCount::is_running_slow
is_running_slow(cnt, t) == f64_le(slow_ratio(cnt, t), threshold_f64(cnt))

----------------------------------------------------------------------------
(* step.rs *)

VariableStep == [kind |-> "VariableStep", step |-> 0]
FixedStep == [kind |-> "FixedStep", step |-> 0]
ConstantStep(d) == [kind |-> "ConstantStep", step |-> d]
null_step == ConstantStep(FloatDurationZero)

Steps == {VariableStep, FixedStep} \cup {ConstantStep(d) : d \in ConstantSteps}
\* the time steps of the paced loops
PacedSteps == {VariableStep, FixedStep, ConstantStep(Res * Ms(50))}

\* time_step with ConstantStep following the wall time, as VariableStep does
time_step_constant_reads_wall(s, wall_time, cnt) ==
    CASE s.kind = "VariableStep" -> wall_time
      [] s.kind = "FixedStep" -> target_time_per_frame(cnt)
      [] s.kind = "ConstantStep" -> wall_time

\* time_step with FixedStep following the wall time, as VariableStep does
time_step_fixed_reads_wall(s, wall_time, cnt) ==
    CASE s.kind = "VariableStep" -> wall_time
      [] s.kind = "FixedStep" -> wall_time
      [] s.kind = "ConstantStep" -> s.step

time_step(s, wall_time, cnt) ==
    CASE s.kind = "VariableStep" -> wall_time
      [] s.kind = "FixedStep" -> target_time_per_frame(cnt)
      [] s.kind = "ConstantStep" -> s.step

----------------------------------------------------------------------------
(* time_progression.rs *)

\* compute_game_time with FixedStep following the wall time
compute_game_time_fixed_reads_wall(s, wall_time, cnt) ==
    CASE s.kind = "VariableStep" -> wall_time
      [] s.kind = "FixedStep" -> wall_time
      [] s.kind = "ConstantStep" -> s.step

compute_game_time(s, wall_time, cnt) ==
    CASE s.kind = "VariableStep" -> wall_time
      [] s.kind = "FixedStep" -> target_time_per_frame(cnt)
      [] s.kind = "ConstantStep" -> s.step

----------------------------------------------------------------------------
(* clock.rs *)

\* GameClockBuilder::new
GameClockBuilderNew(now) ==
    [start_game_time |-> 0,
     start_wall_time |-> now,
     start_frame |-> 0,
     clock_multiplier |-> 1]

\* the setters of GameClockBuilder
builder_start_game_time(b, val) == [b EXCEPT !.start_game_time = val]
builder_start_wall_time(b, val) == [b EXCEPT !.start_wall_time = val]
builder_start_frame(b, frame_num) == [b EXCEPT !.start_frame = frame_num]
builder_clock_multiplier(b, multiplier) == [b EXCEPT !.clock_multiplier = multiplier]

\* build starting every clock at frame 0
GameClockBuilderBuildAtFrameZero(start_game_time, start_wall_time, start_frame, clock_multiplier) ==
    [last_frame_time |->
        [frame_wall_time |-> start_wall_time,
         frame_game_time |-> start_game_time,
         elapsed_game_time |-> FloatDurationZero,
         elapsed_wall_time |-> FloatDurationZero,
         frame_number |-> 0],
     start_wall_time |-> start_wall_time,
     total_game_time |-> 0,
     current_frame |-> 0,
     clock_multiplier |-> clock_multiplier]

\* GameClockBuilder::build, of a builder with these fields
GameClockBuilderBuild(start_game_time, start_wall_time, start_frame, clock_multiplier) ==
    [last_frame_time |->
        [frame_wall_time |-> start_wall_time,
         frame_game_time |-> start_game_time,
         elapsed_game_time |-> FloatDurationZero,
         elapsed_wall_time |-> FloatDurationZero,
         frame_number |-> start_frame],
     start_wall_time |-> start_wall_time,
     total_game_time |-> 0,
     current_frame |-> start_frame,
     clock_multiplier |-> clock_multiplier]

GameClockNew(now) ==
    [last_frame_time |->
        [frame_wall_time |-> now,
         frame_game_time |-> 0,
         elapsed_game_time |-> FloatDurationZero,
         elapsed_wall_time |-> FloatDurationZero,
         frame_number |-> 0],
     start_wall_time |-> now,
     total_game_time |-> 0,
     current_frame |-> 0,
     clock_multiplier |-> 1]

\* GameClockBuilder::build
build(b) ==
    GameClockBuilderBuild(b.start_game_time, b.start_wall_time,
                          b.start_frame, b.clock_multiplier)

\* set_clock_multiplier rescaling the time of the current frame as well
set_clock_multiplier_rescaling(c, val) ==
    [c EXCEPT !.clock_multiplier = val,
              !.last_frame_time.elapsed_game_time = c.last_frame_time.elapsed_wall_time * val]
\* GameClock::set_clock_multiplier
set_clock_multiplier(c, val) == [c EXCEPT !.clock_multiplier = val]

current_frame_number(c) == c.current_frame
frame_wall_time(c) == c.last_frame_time.frame_wall_time
last_frame_time(c) == c.last_frame_time

\* GameTime::total_game_time, the game time at the frame as a FloatDuration
GameTimeTotalGameTime(t) == from_std(t.frame_game_time)

\* GameTime::instantaneous_frame_rate, lines 258-260
instantaneous_frame_rate(t) == f64_div(F64One, as_seconds(t.elapsed_game_time))

\* tick without the increment of line 147
next_frame_stuck(c) == c.current_frame
\* line 147
next_frame(c) == c.current_frame + 1
\* lines 149-151 measuring from the start of the clock
elapsed_wall_since_start(c, frame_start) == float_duration_since(frame_start, c.start_wall_time)
\* lines 149-151
elapsed_wall(c, frame_start) == float_duration_since(frame_start, frame_wall_time(c))
\* line 153 without the multiplier
elapsed_game_unscaled(c, s, wall_time, cnt) == time_step(s, wall_time, cnt)
\* line 153 with a zero multiplier taken as unset
elapsed_game_zero_as_one(c, s, wall_time, cnt) ==
    time_step(s, wall_time, cnt) * (IF c.clock_multiplier = 0 THEN 1 ELSE c.clock_multiplier)
\* line 153
elapsed_game(c, s, wall_time, cnt) == time_step(s, wall_time, cnt) * c.clock_multiplier
\* line 154 assigning the frame's time instead of adding it
new_total_game_time_overwrite(c, std) == std
\* line 154
new_total_game_time(c, std) == c.total_game_time + std

\* line 166 leaving the previous frame's GameTime in place
kept_frame_time(c, t) == c.last_frame_time
\* line 166: a clone of the GameTime that tick returns
new_last_frame_time(c, t) == t

\* GameClock::tick, the frame starting at frame_start: the clock and the
\* GameTime it returns, or the clock as the failed unwrap leaves it
tick(c, s, frame_start, cnt) ==
    LET current_frame == next_frame(c)
        elapsed_wall_time == elapsed_wall(c, frame_start)
        elapsed_game_time == elapsed_game(c, s, elapsed_wall_time, cnt)
        std == to_std(elapsed_game_time)
        total_game_time == new_total_game_time(c, std.val)
        t == [frame_wall_time |-> frame_start,
              frame_game_time |-> total_game_time,
              elapsed_game_time |-> elapsed_game_time,
              elapsed_wall_time |-> elapsed_wall_time,
              frame_number |-> current_frame]
    IN  IF std.ok
        THEN [ok |-> TRUE,
              clock |-> [c EXCEPT !.current_frame = current_frame,
                                  !.total_game_time = total_game_time,
                                  !.last_frame_time = new_last_frame_time(c, t)],
              time |-> t]
        ELSE [ok |-> FALSE,
              clock |-> [c EXCEPT !.current_frame = current_frame],
              time |-> c.last_frame_time]

elapsed_time_since_frame_start(t, now) == float_duration_since(now, t.frame_wall_time)

\* lines 187-188
remaining_time(c, cnt, now) ==
    target_time_per_frame(cnt) - elapsed_time_since_frame_start(c.last_frame_time, now)
\* lines 189-191 with f called for a positive remaining time only
sleep_calls_strict(remaining) ==
    IF remaining > 0 THEN <<remaining>> ELSE <<>>
\* lines 189-191: the arguments f is called with
sleep_calls(remaining) ==
    IF ~is_negative(remaining) THEN <<remaining>> ELSE <<>>

----------------------------------------------------------------------------
(* runner.rs *)

\* GameClock::tick_with_wall_time: tick with the wall time given by the
\* caller in place of the reading of the system clock
tick_with_wall_time(c, s, frame_start, cnt) == tick(c, s, frame_start, cnt)

\* do_frame with the pacing sleep before the frame function
after_step_sleep_first(at, failed) ==
    IF failed THEN "unwound"
    ELSE CASE at = "clock_tick" -> "counter_tick"
           [] at = "counter_tick" -> "sleep_remaining"
           [] at = "sleep_remaining" -> "frame_fn"
           [] at = "frame_fn" -> "idle"

\* do_frame going on to the pacing sleep after a frame function that failed
after_step_caught(at, failed) ==
    IF failed /\ at # "frame_fn" THEN "unwound"
    ELSE CASE at = "clock_tick" -> "counter_tick"
           [] at = "counter_tick" -> "frame_fn"
           [] at = "frame_fn" -> "sleep_remaining"
           [] at = "sleep_remaining" -> "idle"

\* FrameRunner::do_frame: the position after the step at, which returned or
\* failed; a failure unwinds out of do_frame
after_step(at, failed) ==
    IF failed THEN "unwound"
    ELSE CASE at = "clock_tick" -> "counter_tick"
           [] at = "counter_tick" -> "frame_fn"
           [] at = "frame_fn" -> "sleep_remaining"
           [] at = "sleep_remaining" -> "idle"

\* the record of one step of do_frame
Logged(at, t) == [step |-> at, time |-> t]

----------------------------------------------------------------------------

NoCall == [op |-> "new", step |-> VariableStep, arg |-> 0]

\* the time steps and multipliers of the ticks that returned so far: whether
\* there was one yet, whether every one was given the same time step (and
\* which), whether every one ran under the same multiplier (and which)
NoRun == [state |-> "none", step |-> VariableStep, mult_same |-> TRUE, mult |-> 0]
run_after(r, s, m) ==
    IF r.state = "none"
    THEN [state |-> "same", step |-> s, mult_same |-> TRUE, mult |-> m]
    ELSE LET same == r.mult_same /\ r.mult = m
             st == IF r.state = "same" /\ r.step = s THEN "same" ELSE "mixed"
         IN  [state |-> st,
              step |-> IF st = "same" THEN s ELSE VariableStep,
              mult_same |-> same,
              mult |-> IF same THEN m ELSE 0]

\* the state after construction, but for the clock and the counter
Constructed ==
    /\ time = clock.last_frame_time
    /\ outcome = "none"
    /\ call = NoCall
    /\ ret = FloatDurationZero
    /\ f_calls = <<>>
    /\ slept = <<>>
    /\ ticks = 0
    /\ start = clock
    /\ run = NoRun
    /\ seen = <<>>
    /\ slow = FALSE
    /\ pc = "idle"
    /\ log = <<>>

\* a clock from GameClock::new or from the builder, a counter over a sampler
\* of the default size, in a build with overflow checks
Init ==
    /\ \/ \E now \in WallTimes : clock = GameClockNew(now)
       \/ \E g \in StartGameTimes, w \in StartWallTimes, n \in StartFrames, m \in Multipliers :
             clock = GameClockBuilderBuild(g, w, n, m)
    /\ \E r \in FrameRates : counter = FrameCounterNew(r, RunningAverageSamplerNew)
    /\ overflow_checks = TRUE
    /\ Constructed

\* what every call records
Called(op, s, arg) ==
    /\ outcome # "panicked"
    /\ pc = "idle"
    /\ call' = [op |-> op, step |-> s, arg |-> arg]

\* clock.tick(&step) returns a GameTime
Tick ==
    /\ ticks < MaxTicks
    /\ \E s \in Steps, now \in WallTimes :
          LET r == tick(clock, s, now, counter) IN
          /\ r.ok
          /\ Called("tick", s, now)
          /\ clock' = r.clock
          /\ time' = r.time
          /\ run' = run_after(run, s, clock.clock_multiplier)
    /\ outcome' = "returned"
    /\ ticks' = ticks + 1
    /\ ret' = FloatDurationZero
    /\ f_calls' = <<>>
    /\ slept' = <<>>
    /\ UNCHANGED <<counter, start>>
    /\ UNCHANGED <<overflow_checks, sample_vars, frame_vars>>

\* clock.tick(&step) panics in to_std().unwrap()
TickPanic ==
    /\ ticks < MaxTicks
    /\ \E s \in Steps, now \in WallTimes :
          LET r == tick(clock, s, now, counter) IN
          /\ ~r.ok
          /\ Called("tick", s, now)
          /\ clock' = r.clock
    /\ outcome' = "panicked"
    /\ ret' = FloatDurationZero
    /\ f_calls' = <<>>
    /\ slept' = <<>>
    /\ UNCHANGED <<counter, time, ticks, start, run>>
    /\ UNCHANGED <<overflow_checks, sample_vars, frame_vars>>

\* clock.set_clock_multiplier(val)
SetClockMultiplier ==
    /\ \E val \in Multipliers :
          /\ Called("set_clock_multiplier", VariableStep, val)
          /\ clock' = set_clock_multiplier(clock, val)
    /\ ret' = FloatDurationZero
    /\ f_calls' = <<>>
    /\ slept' = <<>>
    /\ UNCHANGED <<counter, time, outcome, ticks, start, run>>
    /\ UNCHANGED <<overflow_checks, sample_vars, frame_vars>>

\* GameClockBuilder::new() at the wall time now, any of its setters, then
\* build(): the program goes on with the clock built
BuildClock ==
    /\ \E now \in WallTimes, g \in StartGameTimes, w \in WallTimes,
          n \in StartFrames, m \in Multipliers, set \in SUBSET {"g", "w", "n", "m"} :
          LET b0 == GameClockBuilderNew(now)
              b1 == IF "g" \in set THEN builder_start_game_time(b0, g) ELSE b0
              b2 == IF "w" \in set THEN builder_start_wall_time(b1, w) ELSE b1
              b3 == IF "n" \in set THEN builder_start_frame(b2, n) ELSE b2
              b4 == IF "m" \in set THEN builder_clock_multiplier(b3, m) ELSE b3
          IN  /\ Called("build", VariableStep, b4)
              /\ clock' = build(b4)
              /\ time' = last_frame_time(build(b4))
              /\ start' = build(b4)
    /\ outcome' = "none"
    /\ ret' = FloatDurationZero
    /\ f_calls' = <<>>
    /\ slept' = <<>>
    /\ ticks' = 0
    /\ run' = NoRun
    /\ UNCHANGED <<counter, overflow_checks, sample_vars, frame_vars>>

\* one iteration of  while sim_time.total_game_time() < end_time
\*                       { sim_time = clock.tick(&step); }
\* the step and the end time being those the loop was entered with
LoopTick ==
    /\ call.op = "loop"
    /\ outcome # "panicked"
    /\ pc = "idle"
    /\ ticks < MaxLoopTicks
    /\ GameTimeTotalGameTime(time) < call.arg
    /\ \E now \in WallTimes :
          LET r == tick(clock, call.step, now, counter) IN
          /\ clock' = r.clock
          /\ IF r.ok
             THEN /\ time' = r.time
                  /\ outcome' = "returned"
                  /\ ticks' = ticks + 1
                  /\ run' = run_after(run, call.step, clock.clock_multiplier)
             ELSE /\ outcome' = "panicked"
                  /\ UNCHANGED <<time, ticks, run>>
    /\ UNCHANGED <<call, ret, f_calls, slept, start, counter>>
    /\ UNCHANGED <<overflow_checks, sample_vars, frame_vars>>

\* step.time_step(&wall_time), called directly
TimeStepCall ==
    /\ \E s \in Steps, wall_time \in StepInputs :
          /\ Called("time_step", s, wall_time)
          /\ ret' = time_step(s, wall_time, counter)
    /\ f_calls' = <<>>
    /\ slept' = <<>>
    /\ UNCHANGED <<clock, counter, time, outcome, ticks, start, run>>
    /\ UNCHANGED <<overflow_checks, sample_vars, frame_vars>>

\* step.compute_game_time(&wall_time) of trait TimeProgression, called directly
ComputeGameTimeCall ==
    /\ \E s \in Steps, wall_time \in StepInputs :
          /\ Called("compute_game_time", s, wall_time)
          /\ ret' = compute_game_time(s, wall_time, counter)
    /\ f_calls' = <<>>
    /\ slept' = <<>>
    /\ UNCHANGED <<clock, counter, time, outcome, ticks, start, run>>
    /\ UNCHANGED <<overflow_checks, sample_vars, frame_vars>>

\* clock.sleep_remaining_via(&counter, f), f recording its argument
SleepRemainingVia ==
    /\ \E now \in WallTimes :
          /\ Called("sleep_remaining_via", VariableStep, now)
          /\ f_calls' = sleep_calls(remaining_time(clock, counter, now))
    /\ ret' = FloatDurationZero
    /\ slept' = <<>>
    /\ UNCHANGED <<clock, counter, time, outcome, ticks, start, run>>
    /\ UNCHANGED <<overflow_checks, sample_vars, frame_vars>>

\* clock.sleep_remaining(&counter): f is |rem| thread::sleep(rem.to_std().unwrap())
SleepRemaining ==
    /\ \E now \in WallTimes :
          /\ Called("sleep_remaining", VariableStep, now)
          /\ f_calls' = sleep_calls(remaining_time(clock, counter, now))
          /\ slept' = [i \in DOMAIN f_calls' |-> to_std(f_calls'[i]).val]
    /\ ret' = FloatDurationZero
    /\ UNCHANGED <<clock, counter, time, outcome, ticks, start, run>>
    /\ UNCHANGED <<overflow_checks, sample_vars, frame_vars>>

\* counter.set_target_frame_rate(val), val from vals
SetTargetFrameRateFrom(vals) ==
    /\ \E val \in vals :
          /\ Called("set_target_frame_rate", VariableStep, val)
          /\ counter' = set_target_frame_rate(counter, val)
    /\ ret' = FloatDurationZero
    /\ f_calls' = <<>>
    /\ slept' = <<>>
    /\ UNCHANGED <<clock, time, outcome, ticks, start, run>>
    /\ UNCHANGED <<overflow_checks, sample_vars, frame_vars>>

SetTargetFrameRate == SetTargetFrameRateFrom(FrameRates)
\* any f64 is taken
SetAnyTargetFrameRate == SetTargetFrameRateFrom(AnyFrameRates)

\* counter.set_slow_threshold(val), val from vals
SetSlowThresholdFrom(vals) ==
    /\ \E val \in vals :
          /\ Called("set_slow_threshold", VariableStep, val)
          /\ counter' = set_slow_threshold(counter, val)
    /\ ret' = FloatDurationZero
    /\ f_calls' = <<>>
    /\ slept' = <<>>
    /\ UNCHANGED <<clock, time, outcome, ticks, start, run>>
    /\ UNCHANGED <<overflow_checks, sample_vars, frame_vars>>

SetSlowThreshold == SetSlowThresholdFrom(SlowThresholds)
\* any f64 is taken
SetAnySlowThreshold == SetSlowThresholdFrom(AnySlowThresholds)

\* counter.tick(&time) returns
CounterTick ==
    /\ Len(seen) < MaxSampleTicks
    /\ \E t \in SampleTimes :
          LET r == counter_tick(counter, t, overflow_checks) IN
          /\ r.ok
          /\ Called("counter_tick", VariableStep, t.elapsed_wall_time)
          /\ counter' = r.counter
          /\ seen' = Append(seen, t)
    /\ UNCHANGED <<clock, time, outcome, ret, f_calls, slept, ticks, start, run>>
    /\ UNCHANGED <<overflow_checks, slow, frame_vars>>

\* counter.tick(&time) panics in the sampler
CounterTickPanic ==
    /\ Len(seen) < MaxSampleTicks
    /\ \E t \in SampleTimes :
          LET r == counter_tick(counter, t, overflow_checks) IN
          /\ ~r.ok
          /\ Called("counter_tick", VariableStep, t.elapsed_wall_time)
          /\ counter' = r.counter
          /\ seen' = Append(seen, t)
    /\ outcome' = "panicked"
    /\ UNCHANGED <<clock, time, ret, f_calls, slept, ticks, start, run>>
    /\ UNCHANGED <<overflow_checks, slow, frame_vars>>

\* counter.is_running_slow(&time)
IsRunningSlowCall ==
    /\ \E t \in SampleTimes :
          /\ Called("is_running_slow", VariableStep, t.elapsed_wall_time)
          /\ slow' = is_running_slow(counter, t)
    /\ UNCHANGED <<clock, counter, time, outcome, ret, f_calls, slept, ticks, start, run>>
    /\ UNCHANGED <<overflow_checks, seen, frame_vars>>

\* FrameRunner::tick and tick_with_wall_time: the clock ticks, giving r, then
\* the counter ticks with the GameTime of r
RunnerTicked(op, s, now, r) ==
    LET c == counter_tick(counter, r.time, overflow_checks) IN
    /\ ticks < MaxTicks
    /\ Called(op, s, now)
    /\ clock' = r.clock
    /\ IF r.ok
       THEN /\ time' = r.time
            /\ ticks' = ticks + 1
            /\ run' = run_after(run, s, clock.clock_multiplier)
            /\ counter' = c.counter
            /\ seen' = Append(seen, r.time)
            /\ outcome' = IF c.ok THEN "returned" ELSE "panicked"
       ELSE /\ outcome' = "panicked"
            /\ UNCHANGED <<time, ticks, run, counter, seen>>
    /\ UNCHANGED <<ret, f_calls, slept, start, overflow_checks, slow, frame_vars>>

\* runner.tick(&step)
RunnerTick ==
    \E s \in Steps, now \in WallTimes :
        RunnerTicked("runner_tick", s, now, tick(clock, s, now, counter))

\* runner.tick_with_wall_time(&step, frame_start)
RunnerTickWithWallTime ==
    \E s \in Steps, frame_start \in WallTimes :
        RunnerTicked("runner_tick_with_wall_time", s, frame_start,
                     tick_with_wall_time(clock, s, frame_start, counter))

\* runner.do_frame(&step, frame_fn) starts: self.tick begins with clock.tick
DoFrameClockTick ==
    /\ ticks < MaxTicks
    /\ \E s \in Steps, now \in WallTimes :
          LET r == tick(clock, s, now, counter) IN
          /\ Called("do_frame", s, now)
          /\ clock' = r.clock
          /\ pc' = after_step("clock_tick", ~r.ok)
          /\ IF r.ok
             THEN /\ time' = r.time
                  /\ ticks' = ticks + 1
                  /\ run' = run_after(run, s, clock.clock_multiplier)
                  /\ outcome' = "returned"
                  /\ log' = <<Logged("clock_tick", r.time)>>
             ELSE /\ outcome' = "panicked"
                  /\ log' = <<>>
                  /\ UNCHANGED <<time, ticks, run>>
    /\ f_calls' = <<>>
    /\ slept' = <<>>
    /\ UNCHANGED <<counter, ret, start, overflow_checks, sample_vars>>

\* do_frame: self.tick goes on with counter.tick(&time)
DoFrameCounterTick ==
    /\ outcome # "panicked"
    /\ pc = "counter_tick"
    /\ LET c == counter_tick(counter, time, overflow_checks) IN
       /\ counter' = c.counter
       /\ seen' = Append(seen, time)
       /\ pc' = after_step("counter_tick", ~c.ok)
       /\ outcome' = IF c.ok THEN outcome ELSE "panicked"
       /\ log' = IF c.ok THEN Append(log, Logged("counter_tick", time)) ELSE log
    /\ UNCHANGED <<clock, time, call, ret, f_calls, slept, ticks, start, run>>
    /\ UNCHANGED <<overflow_checks, slow>>

\* do_frame: frame_fn(time) returns
DoFrameFn ==
    /\ outcome # "panicked"
    /\ pc = "frame_fn"
    /\ pc' = after_step("frame_fn", FALSE)
    /\ log' = Append(log, Logged("frame_fn", time))
    /\ UNCHANGED <<clock, counter, time, outcome, call, ret, f_calls, slept>>
    /\ UNCHANGED <<ticks, start, run, overflow_checks, sample_vars>>

\* do_frame: frame_fn(time) fails
DoFrameFnFails ==
    /\ outcome # "panicked"
    /\ pc = "frame_fn"
    /\ pc' = after_step("frame_fn", TRUE)
    /\ log' = Append(log, Logged("frame_fn_failed", time))
    /\ outcome' = IF pc' = "unwound" THEN "panicked" ELSE outcome
    /\ UNCHANGED <<clock, counter, time, call, ret, f_calls, slept>>
    /\ UNCHANGED <<ticks, start, run, overflow_checks, sample_vars>>

\* do_frame: self.clock.sleep_remaining(&self.counter)
DoFrameSleepRemaining ==
    /\ outcome # "panicked"
    /\ pc = "sleep_remaining"
    /\ \E now \in WallTimes :
          /\ f_calls' = sleep_calls(remaining_time(clock, counter, now))
          /\ slept' = [i \in DOMAIN f_calls' |-> to_std(f_calls'[i]).val]
    /\ pc' = after_step("sleep_remaining", FALSE)
    /\ log' = Append(log, Logged("sleep_remaining", time))
    /\ UNCHANGED <<clock, counter, time, outcome, call, ret>>
    /\ UNCHANGED <<ticks, start, run, overflow_checks, sample_vars>>

\* one round of a loop that ticks the clock and then the counter, the system
\* clock reading PacedFrame later on each round
PacedTick ==
    /\ Len(seen) < MaxSampleTicks
    /\ \E s \in PacedSteps :
          LET now == frame_wall_time(clock) + PacedFrame
              r == tick(clock, s, now, counter)
              c == counter_tick(counter, r.time, overflow_checks)
          IN  /\ Called("paced_tick", s, now)
              /\ clock' = r.clock
              /\ IF r.ok
                 THEN /\ time' = r.time
                      /\ ticks' = ticks + 1
                      /\ run' = run_after(run, s, clock.clock_multiplier)
                      /\ counter' = c.counter
                      /\ seen' = Append(seen, r.time)
                      /\ outcome' = IF c.ok THEN "returned" ELSE "panicked"
                 ELSE /\ outcome' = "panicked"
                      /\ UNCHANGED <<time, ticks, run, counter, seen>>
    /\ UNCHANGED <<ret, f_calls, slept, start, overflow_checks, slow, frame_vars>>

\* the clock alone
Next ==
    \/ Tick
    \/ TickPanic
    \/ SetClockMultiplier

Spec == Init /\ [][Next]_vars

\* the time steps, called directly and by tick, beside a counter that is
\* reconfigured
NextStep ==
    \/ TimeStepCall
    \/ ComputeGameTimeCall
    \/ Tick
    \/ TickPanic
    \/ SetTargetFrameRate
    \/ SetSlowThreshold

SpecStep == Init /\ [][NextStep]_vars

\* the clock and the pacing sleep
NextSleep ==
    \/ Tick
    \/ TickPanic
    \/ SleepRemainingVia
    \/ SleepRemaining
    \/ SetTargetFrameRate

SpecSleep == Init /\ [][NextSleep]_vars

\* a counter over a sampler of either type and of any size, in either build
InitSampler ==
    /\ clock = GameClockNew(0)
    /\ \E r \in FrameRates, m \in MaxSamples :
          \/ counter = FrameCounterNew(r, RunningAverageSamplerWithMaxSamples(m))
          \/ counter = FrameCounterNew(r, LinearAverageSamplerWithMaxSamples(m))
    /\ overflow_checks \in BOOLEAN
    /\ Constructed

\* the counter ticked with GameTimes
NextSampler ==
    \/ CounterTick
    \/ CounterTickPanic

SpecSampler == InitSampler /\ [][NextSampler]_vars

\* the slowness test beside a counter that is reconfigured
NextSlow ==
    \/ IsRunningSlowCall
    \/ SetTargetFrameRate
    \/ SetSlowThreshold

SpecSlow == Init /\ [][NextSlow]_vars

\* a clock and a counter over a sampler of either type and of any size
InitPaced ==
    /\ \/ clock = GameClockNew(0)
       \/ \E m \in PacedMultipliers : clock = GameClockBuilderBuild(0, 0, 0, m)
    /\ \E r \in FrameRates, m \in MaxSamples :
          \/ counter = FrameCounterNew(r, RunningAverageSamplerWithMaxSamples(m))
          \/ counter = FrameCounterNew(r, LinearAverageSamplerWithMaxSamples(m))
    /\ overflow_checks \in BOOLEAN
    /\ Constructed

\* a loop at 100 ms of wall time a round
NextPaced == PacedTick

SpecPaced == InitPaced /\ [][NextPaced]_vars

\* a new clock, its multiplier set, about to enter the simulation loop
InitLoop ==
    /\ \E m \in LoopMultipliers : clock = set_clock_multiplier(GameClockNew(0), m)
    /\ counter = FrameCounterNew(20, RunningAverageSamplerNew)
    /\ overflow_checks = TRUE
    /\ \E l \in Loops : call = [op |-> "loop", step |-> ConstantStep(l[1]), arg |-> l[2]]
    /\ time = clock.last_frame_time
    /\ outcome = "none"
    /\ ret = FloatDurationZero
    /\ f_calls = <<>>
    /\ slept = <<>>
    /\ ticks = 0
    /\ start = clock
    /\ run = NoRun
    /\ seen = <<>>
    /\ slow = FALSE
    /\ pc = "idle"
    /\ log = <<>>

NextLoop == LoopTick

\* the loop is sequential code: an iteration that can run does run
SpecLoop == InitLoop /\ [][NextLoop]_vars /\ WF_vars(LoopTick)

\* clocks being built and configured
NextBuild == BuildClock \/ SetClockMultiplier

SpecBuild == Init /\ [][NextBuild]_vars

\* a counter over a sampler of any of the three types; the FrameCounter of
\* frame.rs has no slow threshold, which no tick reads
InitRate ==
    /\ clock = GameClockNew(0)
    /\ \E m \in MaxSamples :
          \/ counter = FrameCounterNew(20, RunningAverageSamplerWithMaxSamples(m))
          \/ counter = FrameCounterNew(20, LinearAverageSamplerWithMaxSamples(m))
          \/ counter = FrameCounterNew(20, MovingAverageSamplerWithMaxSamples(m))
    /\ overflow_checks \in BOOLEAN
    /\ Constructed

SpecRate == InitRate /\ [][NextSampler]_vars

\* a counter constructed with any target frame rate
InitConfig ==
    /\ clock = GameClockNew(0)
    /\ \E r \in AnyFrameRates, m \in MaxSamples :
          \/ counter = FrameCounterNew(r, RunningAverageSamplerWithMaxSamples(m))
          \/ counter = FrameCounterNew(r, LinearAverageSamplerWithMaxSamples(m))
    /\ overflow_checks = TRUE
    /\ Constructed

\* the counter configured and reconfigured
NextConfig ==
    \/ SetAnyTargetFrameRate
    \/ SetAnySlowThreshold

SpecConfig == InitConfig /\ [][NextConfig]_vars

\* the samplers of the runners
RunnerSamplers ==
    {RunningAverageSamplerNew,
     RunningAverageSamplerWithMaxSamples(0),
     LinearAverageSamplerWithMaxSamples(1)}

\* FrameRunner::new(clock, counter)
InitRunner ==
    /\ \/ \E now \in WallTimes : clock = GameClockNew(now)
       \/ \E w \in StartWallTimes : clock = GameClockBuilderBuild(0, w, 0, -1)
    /\ \E r \in FrameRates, sampler \in RunnerSamplers :
          counter = FrameCounterNew(r, sampler)
    /\ overflow_checks \in BOOLEAN
    /\ Constructed

\* a FrameRunner
NextRunner ==
    \/ RunnerTick
    \/ RunnerTickWithWallTime
    \/ DoFrameClockTick
    \/ DoFrameCounterTick
    \/ DoFrameFn
    \/ DoFrameFnFails
    \/ DoFrameSleepRemaining

SpecRunner == InitRunner /\ [][NextRunner]_vars

----------------------------------------------------------------------------
(* Properties *)

\* a step of tick: one that returned, one that panicked
TickReturned == call'.op = "tick" /\ outcome' = "returned"
TickStep == call'.op = "tick"
\* the clock was constructed at game time 0 with multiplier 1
StartedNew ==
    /\ start.last_frame_time.frame_game_time = 0
    /\ start.total_game_time = 0
    /\ start.clock_multiplier = 1
\* there were ticks, and every one was given the time step s
AllTicksUsed(s) == run.state = "same" /\ run.step = s
\* every tick ran under multiplier m
AllTicksUnder(m) == run.mult_same /\ run.mult = m

\* C1: while every tick has returned, after N ticks of a clock built with
\* start frame s the current frame number is s + N, and the GameTime the
\* N-th tick returned has frame number s + N.
C1_FrameNumberIsStartPlusTicks ==
    outcome # "panicked" =>
        /\ current_frame_number(clock) = start.current_frame + ticks
        /\ time.frame_number = start.current_frame + ticks

C1_Witness ==
    /\ start.current_frame = 100
    /\ ticks = 2
    /\ call.op = "tick"
    /\ outcome = "returned"
    /\ time.frame_number = 102
    /\ current_frame_number(clock) = 102

\* C2: on every tick that returns, the first one of a clock built with a
\* start_game_time included, the snapshot's frame_game_time is the previous
\* snapshot's frame_game_time plus this frame's elapsed game time (taken in
\* whole nanoseconds, as frame_game_time is).
C2_FrameGameTimeAccumulates ==
    [][TickReturned =>
        time'.frame_game_time =
            last_frame_time(clock).frame_game_time + to_std(time'.elapsed_game_time).val]_vars

C4_ElapsedGameTimeIsStepTimesMultiplier ==
    (call.op = "tick" /\ outcome = "returned") =>
        LET m == clock.clock_multiplier
            kind == call.step.kind
        IN  /\ kind = "VariableStep" => time.elapsed_game_time = time.elapsed_wall_time * m
            /\ kind = "ConstantStep" => time.elapsed_game_time = call.step.step * m
            /\ kind = "FixedStep" =>
                   time.elapsed_game_time = target_time_per_frame(counter) * m
            /\ (kind = "VariableStep" /\ m = 1) =>
                   time.elapsed_game_time = time.elapsed_wall_time
            /\ (kind = "VariableStep" /\ m = 5 /\ start.current_frame = 100 /\ ticks = 1) =>
                   /\ time.elapsed_game_time = 5 * time.elapsed_wall_time
                   /\ time.frame_number = 101

C4_Witness ==
    /\ start.current_frame = 100
    /\ start.clock_multiplier = 5
    /\ ticks = 1
    /\ call.op = "tick"
    /\ call.step = VariableStep
    /\ outcome = "returned"
    /\ time.elapsed_wall_time = Res * Ms(50)
    /\ time.elapsed_game_time = 5 * Res * Ms(50)
    /\ time.frame_number = 101

\* C5: a tick under a negative multiplier with a time step whose result is
\* positive returns a GameTime whose elapsed_game_time is negative and whose
\* frame_game_time is below the previous frame's.
C5_NegativeMultiplierRunsBackward ==
    [][(TickStep /\ clock.clock_multiplier < 0
          /\ time_step(call'.step, elapsed_wall(clock, call'.arg), counter) > 0) =>
        /\ outcome' = "returned"
        /\ time'.elapsed_game_time < 0
        /\ time'.frame_game_time < last_frame_time(clock).frame_game_time]_vars

\* C6: a tick whose elapsed game time to_std cannot convert hands
\* DurationError::StdOutOfRange to its caller; it does not abort.
C6_ConversionFailureIsReturned ==
    [][(TickStep
          /\ ~to_std(elapsed_game(clock, call'.step, elapsed_wall(clock, call'.arg), counter)).ok) =>
        outcome' = "StdOutOfRange"]_vars

\* C7: while every tick has used the null step ConstantStep(0), each
\* returned snapshot has elapsed_game_time 0, the clock's total game time is
\* still the value it was constructed with, and the frame number has
\* advanced by one per tick.
C7_NullStepFreezesGameTime ==
    (AllTicksUsed(null_step) /\ outcome = "returned") =>
        /\ time.elapsed_game_time = FloatDurationZero
        /\ clock.total_game_time = start.total_game_time
        /\ time.frame_game_time = start.total_game_time
        /\ current_frame_number(clock) = start.current_frame + ticks

C7_Witness ==
    /\ AllTicksUsed(null_step)
    /\ ~run.mult_same
    /\ ticks = 2
    /\ call.op = "tick"
    /\ outcome = "returned"
    /\ time.elapsed_wall_time > 0
    /\ time.elapsed_game_time = 0
    /\ clock.total_game_time = 0
    /\ current_frame_number(clock) = start.current_frame + 2

\* C8: a tick under multiplier 0 returns a snapshot with elapsed_game_time 0
\* and leaves the total game time as it was, for every time step and wall
\* clock reading, while the frame number goes up by one and the frame wall
\* time becomes the reading of this tick.
C8_ZeroMultiplierFreezesGameTime ==
    [][(TickStep /\ clock.clock_multiplier = 0) =>
        /\ outcome' = "returned"
        /\ time'.elapsed_game_time = FloatDurationZero
        /\ clock'.total_game_time = clock.total_game_time
        /\ time'.frame_game_time = clock.total_game_time
        /\ current_frame_number(clock') = current_frame_number(clock) + 1
        /\ frame_wall_time(clock') = call'.arg]_vars

C8_Witness ==
    /\ clock.clock_multiplier = 0
    /\ call.op = "tick"
    /\ call.step = ConstantStep(Res * Ms(50))
    /\ outcome = "returned"
    /\ ticks = 2
    /\ clock.total_game_time > 0
    /\ time.elapsed_game_time = 0
    /\ time.elapsed_wall_time > 0

\* C9: a call of time_step (or of compute_game_time, its TimeProgression
\* form) returns its input for VariableStep, d for ConstantStep(d) and the
\* counter's target_time_per_frame for FixedStep, for every input, and
\* leaves the counter (and the clock) as they were; a tick, which calls
\* time_step, leaves the counter as it was too.
C9_TimeStepIsPure ==
    [][/\ call'.op \in {"time_step", "compute_game_time"} =>
            /\ call'.step.kind = "VariableStep" => ret' = call'.arg
            /\ call'.step.kind = "ConstantStep" => ret' = call'.step.step
            /\ call'.step.kind = "FixedStep" => ret' = target_time_per_frame(counter)
            /\ counter' = counter
            /\ clock' = clock
       /\ TickStep => counter' = counter]_vars

C9_Witness ==
    /\ call.op = "time_step"
    /\ call.step = FixedStep
    /\ call.arg = 0
    /\ counter.target_frame_rate = 40
    /\ counter.slow_threshold = 50
    /\ ret = Res * Ms(25)
    /\ ticks = 1

\* C10: sleep_remaining_via (and sleep_remaining through it) takes remaining
\* = target_time_per_frame - wall time elapsed since the current frame began,
\* and calls f once with that value when it is >= 0, zero included, and not
\* at all when it is negative.
C10_SleepsExactlyTheRemainingTime ==
    call.op \in {"sleep_remaining_via", "sleep_remaining"} =>
        LET remaining == target_time_per_frame(counter)
                            - (call.arg - frame_wall_time(clock)) * Res
        IN  /\ remaining >= 0 => f_calls = <<remaining>>
            /\ remaining < 0 => f_calls = <<>>

C10_Witness ==
    /\ call.op = "sleep_remaining_via"
    /\ counter.target_frame_rate = 20
    /\ call.arg - frame_wall_time(clock) = Ms(50)
    /\ f_calls = <<0>>
    /\ ticks = 1

----------------------------------------------------------------------------
(* Properties of the samplers and of the counter *)

\* the instantaneous rate of a GameTime: one over its elapsed wall time in
\* seconds, infinite for no elapsed time
InstantRate(t) ==
    IF t.elapsed_wall_time = 0 THEN F64Inf
    ELSE F64(NanosPerSec * Res, t.elapsed_wall_time)
\* the rates of the GameTimes q[from..Len(q)]
RatesFrom(q, from) == [i \in 1..(Len(q) - from + 1) |-> InstantRate(q[from + i - 1])]
\* the arithmetic mean of the rates q
Mean(q) == f64_div(f64_sum(q), as_f64(Len(q)))
Running == counter.sampler.kind = "RunningAverageSampler"
Linear == counter.sampler.kind = "LinearAverageSampler"

\* C11: a RunningAverageSampler that has been given k GameTimes, 1 <= k <=
\* max_samples, reports the arithmetic mean of their k instantaneous rates;
\* after the first GameTime it reports that GameTime's rate.
C11_RunningAverageIsMeanBeforeSaturation ==
    (Running /\ outcome # "panicked" /\ Len(seen) >= 1
        /\ Len(seen) <= counter.sampler.max_samples)
    => /\ counter_average_frame_rate(counter) = Mean(RatesFrom(seen, 1))
       /\ Len(seen) = 1 => counter_average_frame_rate(counter) = InstantRate(seen[1])

\* three GameTimes of 50 ms, 100 ms and 100 ms given to a sampler of size 3:
\* the rates 20, 10 and 10 average to 40/3
C11_Witness ==
    /\ Running
    /\ counter.sampler.max_samples = 3
    /\ Len(seen) = 3
    /\ seen[1].elapsed_wall_time = Res * Ms(50)
    /\ seen[2].elapsed_wall_time = Res * Ms(100)
    /\ seen[3].elapsed_wall_time = Res * Ms(100)
    /\ counter_average_frame_rate(counter) = F64(40, 3)

\* a step in which counter.tick was given a GameTime
CounterTicked == Len(seen') = Len(seen) + 1
\* the GameTime that step gave
Given == seen'[Len(seen')]

\* C12: every tick of a RunningAverageSampler whose current_samples has
\* reached max_samples = S returns, sets the average to (previous average *
\* (S - 1) + x) / S for the new instantaneous rate x, and leaves
\* current_samples at S.
C12_SaturatedAverageIsWeighted ==
    [][(CounterTicked /\ Running /\ is_saturated(counter.sampler))
       => LET S == counter.sampler.max_samples
              previous == counter_average_frame_rate(counter)
              x == InstantRate(Given)
          IN  /\ outcome' # "panicked"
              /\ counter_average_frame_rate(counter') =
                    f64_div(f64_add(f64_mul(previous, F64(S - 1, 1)), x), as_f64(S))
              /\ counter'.sampler.current_samples = S]_vars

Min(a, b) == IF a < b THEN a ELSE b
\* the rates of the k most recent GameTimes given
RecentRates(k) == RatesFrom(seen, Len(seen) - k + 1)

\* C13: a LinearAverageSampler holds, in arrival order, the rates of the
\* min(ticks, max_samples) most recent GameTimes it was given, and once it
\* was given more than max_samples GameTimes its average is the arithmetic
\* mean of the max_samples most recent rates.
C13_LinearWindowIsMostRecent ==
    Linear
    => LET recent == RecentRates(Min(Len(seen), counter.sampler.max_samples)) IN
       /\ counter.sampler.past_data = recent
       /\ Len(seen) > counter.sampler.max_samples
            => counter_average_frame_rate(counter) = Mean(recent)

\* C14: a LinearAverageSampler never holds more than max_samples readings.
C14_LinearHoldsAtMostMaxSamples ==
    Linear => Len(counter.sampler.past_data) <= counter.sampler.max_samples

C16_ConfigurationIsWellFormed ==
    /\ counter.target_frame_rate > 0
    /\ counter.slow_threshold > 0
    /\ counter.slow_threshold <= 100

\* C20: a sampler of either type built with max_samples = M is not saturated
\* after fewer than M ticks and is saturated after M ticks and after every
\* later tick; FrameCounter::is_saturated is its sampler's is_saturated.
C20_SaturatedFromMaxSamplesTicksOn ==
    /\ counter_is_saturated(counter) = is_saturated(counter.sampler)
    /\ Len(seen) < counter.sampler.max_samples => ~counter_is_saturated(counter)
    /\ Len(seen) >= counter.sampler.max_samples => counter_is_saturated(counter)

\* a GameTime with its game time fields blanked
WallOnly(t) == [t EXCEPT !.elapsed_game_time = 0, !.frame_game_time = 0]

\* C21: what a tick does to a sampler of either type depends on the elapsed
\* wall time of the GameTime alone, not on its game time, so not on the time
\* step or the multiplier that made it; in a loop with 100 ms of wall time
\* between ticks, whatever the time step (ConstantStep(50 ms) among them) and
\* the multiplier, a sampler of size 1 or more reports 10 after every tick.
C21_AverageFollowsWallTime ==
    /\ [][CounterTicked
           => counter'.sampler =
                sampler_tick(counter.sampler, WallOnly(Given), overflow_checks).sampler]_vars
    /\ []((seen # <<>> /\ counter.sampler.max_samples >= 1)
            => /\ outcome = "returned"
               /\ counter_average_frame_rate(counter) = F64(10, 1))

\* five ticks with ConstantStep(50 ms) under multiplier 2: the elapsed game
\* time is 100 ms, the elapsed wall time 100 ms a tick, the average 10
C21_Witness ==
    /\ Len(seen) = 5
    /\ AllTicksUsed(ConstantStep(Res * Ms(50)))
    /\ clock.clock_multiplier = 2
    /\ counter.sampler.max_samples = 3
    /\ time.elapsed_wall_time = Res * Ms(100)
    /\ time.frame_game_time = Ms(500)
    /\ counter_average_frame_rate(counter) = F64(10, 1)

\* the rate a tick of the sampler took, read off the change of the sampler:
\* the reading a LinearAverageSampler appended, and for the other two, with n
\* the new sample count, n * new average - (n - 1) * old average
RateTaken ==
    IF Linear
    THEN counter'.sampler.past_data[Len(counter'.sampler.past_data)]
    ELSE LET n == counter'.sampler.current_samples IN
         f64_add(f64_mul(counter'.sampler.current_average, F64(n, 1)),
                 f64_mul(counter.sampler.current_average, F64(1 - n, 1)))

\* C22: every sampler tick takes, for the GameTime it is given, the rate that
\* GameTime::instantaneous_frame_rate reports for it (stated for ticks
\* between finite averages, where the rate taken can be read off).
C22_OneRateForOneGameTime ==
    [][(CounterTicked /\ outcome' # "panicked"
          /\ is_finite(counter.sampler.current_average)
          /\ is_finite(counter'.sampler.current_average))
       => RateTaken = instantaneous_frame_rate(Given)]_vars

Built == call'.op = "build"

\* C23: the clock that build yields has the builder's start_frame as its
\* frame number and the builder's multiplier, and its last_frame_time reports
\* the builder's start game time and start wall time and zero elapsed times;
\* built from a builder no setter was called on, it has the frame number,
\* game time and multiplier of GameClock::new().
C23_BuildYieldsTheConfiguredClock ==
    [][Built =>
        LET b == call'.arg
            new == GameClockNew(b.start_wall_time)
        IN  /\ current_frame_number(clock') = b.start_frame
            /\ clock'.clock_multiplier = b.clock_multiplier
            /\ last_frame_time(clock').frame_game_time = b.start_game_time
            /\ last_frame_time(clock').frame_wall_time = b.start_wall_time
            /\ last_frame_time(clock').elapsed_game_time = FloatDurationZero
            /\ last_frame_time(clock').elapsed_wall_time = FloatDurationZero
            /\ b = GameClockBuilderNew(b.start_wall_time)
                  => /\ current_frame_number(clock') = 0
                     /\ current_frame_number(clock') = current_frame_number(new)
                     /\ clock'.total_game_time = 0
                     /\ clock'.total_game_time = new.total_game_time
                     /\ last_frame_time(clock').frame_game_time
                          = last_frame_time(new).frame_game_time
                     /\ clock'.clock_multiplier = 1
                     /\ clock'.clock_multiplier = new.clock_multiplier]_vars

\* a clock built with every setter called, and its multiplier changed since
C23_Witness ==
    /\ start = GameClockBuilderBuild(Ms(100), Ms(50), 100, 5)
    /\ current_frame_number(start) = 100
    /\ last_frame_time(start).frame_game_time = Ms(100)
    /\ last_frame_time(start).frame_wall_time = Ms(50)
    /\ call.op = "set_clock_multiplier"
    /\ clock.clock_multiplier = -1

ClockTicked == ticks' = ticks + 1

\* C25: after a tick, last_frame_time() is the GameTime the tick returned and
\* frame_wall_time() is its frame_wall_time; the GameTimes returned earlier,
\* which the caller holds, are what they were before the tick.
C25_LastFrameTimeIsTheReturnedGameTime ==
    [][ClockTicked =>
        /\ last_frame_time(clock') = time'
        /\ frame_wall_time(clock') = time'.frame_wall_time
        /\ Given = time'
        /\ \A i \in 1..Len(seen) : seen'[i] = seen[i]]_vars

\* three GameTimes returned, the first still as it was returned
C25_Witness ==
    /\ Len(seen) = 3
    /\ call.op = "paced_tick"
    /\ last_frame_time(clock) = seen[3]
    /\ time = seen[3]
    /\ seen[1].frame_number = 1
    /\ seen[1].frame_wall_time = PacedFrame
    /\ seen[3].frame_number = 3
    /\ seen[3].frame_wall_time = 3 * PacedFrame
    /\ frame_wall_time(clock) = 3 * PacedFrame

----------------------------------------------------------------------------
(* Properties of the runner *)

FrameOrder == <<"clock_tick", "counter_tick", "frame_fn", "sleep_remaining">>
StepsOf(l) == [i \in DOMAIN l |-> l[i].step]
IsPrefix(a, b) == Len(a) <= Len(b) /\ a = SubSeq(b, 1, Len(a))
\* the steps of a do_frame call whose frame function failed
FailedFrame == <<"clock_tick", "counter_tick", "frame_fn_failed">>
\* a step that starts a do_frame call
FrameStarts == log' # log /\ Len(log') = 1

\* C17: the steps of a do_frame call are the clock tick, the counter tick,
\* the frame function and the pacing sleep, in this order and once each when
\* the call returns; the counter tick and the frame function get the
\* GameTime the clock tick returned; a call starts only when no call is under
\* way, the one before having done all four steps.
C17_DoFrameStepsInOrder ==
    /\ [](/\ IsPrefix(StepsOf(log), FrameOrder) \/ StepsOf(log) = FailedFrame
          /\ \A i \in DOMAIN log : log[i].time = log[1].time
          /\ (pc = "idle" /\ log # <<>>) => StepsOf(log) = FrameOrder
          /\ pc \notin {"idle", "unwound"} => pc = FrameOrder[Len(log) + 1])
    /\ [][FrameStarts
           => /\ pc = "idle"
              /\ log = <<>> \/ StepsOf(log) = FrameOrder
              /\ log'[1] = Logged("clock_tick", time')
              /\ ticks' = ticks + 1
              /\ clock'.last_frame_time = time']_vars
    /\ [][(Len(log) = 1 /\ Len(log') = 2)
           => CounterTicked /\ Given = log[1].time]_vars

\* a do_frame call that made the second tick of the clock has returned, and
\* it slept
C17_Witness ==
    /\ pc = "idle"
    /\ StepsOf(log) = FrameOrder
    /\ ticks = 2
    /\ Len(seen) = 2
    /\ log[1].time.frame_number = 2
    /\ slept # <<>>

\* C18: when the frame function of a do_frame call fails, the failure leaves
\* do_frame (the call is unwound, nothing after it runs), no pacing sleep is
\* made, and the clock tick and the counter tick of that call stay in place:
\* the clock holds the GameTime of the call and the counter was given it.
C18_FailedFrameFnSkipsSleep ==
    (\E i \in DOMAIN log : log[i].step = "frame_fn_failed")
    => /\ pc = "unwound"
       /\ outcome = "panicked"
       /\ StepsOf(log) = FailedFrame
       /\ f_calls = <<>>
       /\ slept = <<>>
       /\ clock.last_frame_time = log[1].time
       /\ clock.current_frame = log[1].time.frame_number
       /\ clock.current_frame = start.current_frame + ticks
       /\ seen # <<>>
       /\ seen[Len(seen)] = log[1].time

\* the frame function failed in the do_frame call that made the second tick
C18_Witness ==
    /\ StepsOf(log) = FailedFrame
    /\ pc = "unwound"
    /\ ticks = 2
    /\ clock.current_frame = 2

\* a step in which a tick of the clock returned
\* the wall time of the tick before, or of the start of the clock
PreviousWallTime == IF ticks = 0 THEN start.start_wall_time ELSE call.arg

\* C19: a tick whose wall time, read from the system clock or given to
\* tick_with_wall_time, is not earlier than that of the tick before (the start
\* wall time for the first tick) returns a GameTime whose elapsed wall time is
\* the difference of the two, which is not negative, and leaves
\* frame_wall_time() at the wall time of this tick.
C19_ElapsedWallIsDifferenceOfReadings ==
    [][(ClockTicked /\ call'.arg >= PreviousWallTime)
       => /\ time'.elapsed_wall_time = (call'.arg - PreviousWallTime) * Res
          /\ time'.elapsed_wall_time >= 0
          /\ frame_wall_time(clock') = call'.arg]_vars

\* two ticks, at 0 and at 50 ms, the second through tick_with_wall_time
C19_Witness ==
    /\ call.op = "runner_tick_with_wall_time"
    /\ ticks = 2
    /\ call.arg = Ms(50)
    /\ time.elapsed_wall_time = Res * Ms(50)
    /\ frame_wall_time(clock) = Ms(50)
    /\ outcome = "returned"

\* no call is under way and none has failed
BetweenCalls == outcome # "panicked" /\ pc # "counter_tick"

\* C26: between calls of the runner, the counter has been ticked once per
\* tick of the clock, with the GameTime that tick returned: the GameTimes the
\* counter was given are as many as the ticks and as the frames the clock
\* advanced, and a sampler not yet saturated counts as many samples.
C26_CounterTickedOncePerClockTick ==
    /\ [](BetweenCalls =>
            /\ Len(seen) = ticks
            /\ ticks = current_frame_number(clock) - current_frame_number(start)
            /\ (Running /\ ticks <= max_samples(counter.sampler))
                  => counter.sampler.current_samples = ticks
            /\ (Linear /\ ticks <= max_samples(counter.sampler))
                  => Len(counter.sampler.past_data) = ticks)
    /\ [][/\ CounterTicked => (Given = time' /\ Given = last_frame_time(clock'))
          /\ Len(seen') \in {Len(seen), Len(seen) + 1}
          /\ (ClockTicked /\ pc' = "idle") => CounterTicked]_vars

\* two frames through different entry points, the counter given both
C26_Witness ==
    /\ call.op = "runner_tick_with_wall_time"
    /\ BetweenCalls
    /\ pc = "idle"
    /\ ticks = 2
    /\ Len(log) = 4
    /\ Len(seen) = 2
    /\ seen[2] = time
    /\ seen[1] # seen[2]
    /\ counter.sampler.current_samples = 2
    /\ current_frame_number(clock) = 2

\* C27: a RunningAverageSampler never holds more than max_samples samples:
\* a tick adds one to current_samples while it is below max_samples and
\* leaves it alone from then on, and nothing changes max_samples.
C27_CurrentSamplesBoundedByMaxSamples ==
    /\ [](Running => counter.sampler.current_samples <= counter.sampler.max_samples)
    /\ [][Running =>
            /\ counter'.sampler.max_samples = counter.sampler.max_samples
            /\ CounterTicked =>
                  counter'.sampler.current_samples =
                      IF counter.sampler.current_samples < counter.sampler.max_samples
                      THEN counter.sampler.current_samples + 1
                      ELSE counter.sampler.current_samples
            /\ ~CounterTicked =>
                  counter'.sampler.current_samples = counter.sampler.current_samples]_vars

\* a sampler of size 2 after four ticks
C27_Witness ==
    /\ Running
    /\ call.op = "counter_tick"
    /\ counter.sampler.max_samples = 2
    /\ counter.sampler.current_samples = 2
    /\ Len(seen) = 4

\* C28: a tick that fails to convert the elapsed game time leaves the frame
\* number, the total game time and last_frame_time as they were before it.
C28_FailedTickChangesNothing ==
    [][(TickStep /\ outcome' = "panicked") =>
        /\ current_frame_number(clock') = current_frame_number(clock)
        /\ clock'.total_game_time = clock.total_game_time
        /\ last_frame_time(clock') = last_frame_time(clock)]_vars

MultiplierSet == call'.op = "set_clock_multiplier"

\* C29: set_clock_multiplier sets the multiplier and leaves the frame number,
\* the total game time and last_frame_time as they were; the ticks after it
\* scale their elapsed game time by the new multiplier.
C29_SetClockMultiplierChangesOnlyTheMultiplier ==
    [][/\ MultiplierSet =>
            /\ clock'.clock_multiplier = call'.arg
            /\ clock' = [clock EXCEPT !.clock_multiplier = call'.arg]
            /\ current_frame_number(clock') = current_frame_number(clock)
            /\ clock'.total_game_time = clock.total_game_time
            /\ last_frame_time(clock') = last_frame_time(clock)
            /\ time' = time
       /\ TickReturned =>
            /\ clock'.clock_multiplier = clock.clock_multiplier
            /\ time'.elapsed_game_time =
                  time_step(call'.step, time'.elapsed_wall_time, counter)
                      * clock.clock_multiplier]_vars

\* a frame under multiplier 1, the multiplier set to 5, a frame under 5
C29_Witness ==
    /\ StartedNew
    /\ ticks = 2
    /\ call.op = "tick"
    /\ outcome = "returned"
    /\ call.step = ConstantStep(Res * Ms(50))
    /\ clock.clock_multiplier = 5
    /\ time.elapsed_game_time = 5 * Res * Ms(50)
    /\ time.frame_game_time = Ms(300)

\* C30: no tick of a RunningAverageSampler evaluates num_samples - 1 with
\* num_samples = 0: the sample count a tick computes with is at least 1,
\* whatever max_samples the sampler was made with, so the subtraction does
\* not underflow and the division is not by zero.
C30_NoUnderflowOfSampleCount ==
    [][(Running /\ CounterTicked) =>
        LET num_samples == counter'.sampler.current_samples IN
        /\ num_samples # 0
        /\ previous_weight(num_samples) >= 0
        /\ outcome' # "panicked"]_vars

\* C31: average_frame_rate() never divides by a sample count of zero: in
\* every state of either sampler, before the first tick too, the
\* LinearAverageSampler holds at least one reading to divide by and the
\* average reported is a number, not NaN.
C31_AverageIsDefined ==
    /\ Linear => Len(counter.sampler.past_data) # 0
    /\ ~is_nan(counter_average_frame_rate(counter))

====
